---- MODULE Spec2Model ----
(***************************************************************************)
(* A model of the Zeepkist level point calculation                         *)
(* (src/app/utils/calculateLevelPoints.ts).                                *)
(*                                                                         *)
(* JavaScript numbers are modelled as tagged values: not-a-number, the two *)
(* infinities, and finite values held as signed integers with SCALE units  *)
(* per 1.0 and a significand of at most PRECISION units, so that large     *)
(* values are spaced further apart than small ones.  Every arithmetic      *)
(* operation rounds its exact result to the nearest representable value,   *)
(* as IEEE-754 arithmetic does on its own (finer) grid, and follows the    *)
(* IEEE-754 rules for the special values.  Negative zero is identified     *)
(* with zero.                                                              *)
(***************************************************************************)
EXTENDS Integers, Sequences, FiniteSets, TLC

\* Fixed-point units per 1.0 of a finite number.
SCALE == 10000

\* Significand limit of a finite number: values of PRECISION units or more
\* are spaced 10, 100, ... units apart.
PRECISION == 100000

\* ------------------------------------------------------------------------
\* The number type
\* ------------------------------------------------------------------------

NaN == [k |-> "nan", v |-> 0]

PosInf == [k |-> "pinf", v |-> 0]

NegInf == [k |-> "ninf", v |-> 0]

Abs(i) == IF i < 0 THEN -i ELSE i

Sgn(i) == IF i < 0 THEN -1 ELSE IF i > 0 THEN 1 ELSE 0

\* The spacing of the finite values around the magnitude a: a number keeps
\* PRECISION units of significand, as a double keeps 2^53.
RECURSIVE Quantum(_, _)
Quantum(a, q) == IF a \div q < PRECISION THEN q ELSE Quantum(a, 10 * q)

\* i rounded to the nearest finite value, ties to the even significand.
RoundToNumber(i) ==
    LET a    == Abs(i)
        q    == Quantum(a, 1)
        down == a \div q
        rest == a % q
        up   == 2 * rest > q \/ (2 * rest = q /\ down % 2 = 1)
    IN  Sgn(i) * q * (IF up THEN down + 1 ELSE down)

\* The finite number nearest to v / SCALE.
Fin(v) == [k |-> "fin", v |-> RoundToNumber(v)]

\* The finite number n (an integer literal of the source).
Int2Num(n) == Fin(n * SCALE)

\* The finite number m / 1000 (a decimal literal of the source).
Milli(m) == Fin((m * SCALE) \div 1000)

Zero == Fin(0)

One == Int2Num(1)

NumberIsNaN(x) == x.k = "nan"

NumberIsFinite(x) == x.k = "fin"

\* Sign of a number that is not NaN: -1, 0 or 1.
NumSign(x) == IF x.k = "pinf" THEN 1 ELSE IF x.k = "ninf" THEN -1 ELSE Sgn(x.v)

InfOfSign(s) == IF s > 0 THEN PosInf ELSE NegInf

\* <<q, r>> with a * b = q * c + r and 0 <= r < c, for 0 <= a < c, 0 <= b,
\* computed by doubling so that no intermediate exceeds 3 * c.
AddQR(q, t, c) == <<q + (t \div c), t % c>>

DoubleQR(h, a, c) == AddQR(2 * h[1], 2 * h[2] + a, c)

RECURSIVE MulQR(_, _, _)
MulQR(a, b, c) ==
    IF b = 0 THEN <<0, 0>>
    ELSE DoubleQR(MulQR(a, b \div 2, c), (b % 2) * a, c)

\* a * b / c rounded to the nearest integer (ties away from zero), for
\* a, b >= 0 and c > 0.
MulDivNat(a, b, c) ==
    LET qa == a \div c
        ra == a % c
        qr == IF b = 0 \/ ra <= 2147483647 \div b
              THEN <<(ra * b) \div c, (ra * b) % c>>
              ELSE MulQR(ra, b, c)
    IN  qa * b + qr[1] + (IF qr[2] >= c - qr[2] THEN 1 ELSE 0)

\* a * b / c rounded to nearest, any signs, c # 0.
MulDiv(a, b, c) ==
    Sgn(a) * Sgn(b) * Sgn(c) * MulDivNat(Abs(a), Abs(b), Abs(c))

\* x + y
NumAdd(x, y) ==
    IF x.k = "nan" \/ y.k = "nan" THEN NaN
    ELSE IF x.k = "fin" /\ y.k = "fin" THEN Fin(x.v + y.v)
    ELSE IF x.k = "fin" THEN y
    ELSE IF y.k = "fin" THEN x
    ELSE IF x.k = y.k THEN x
    ELSE NaN

\* -x
NumNeg(x) ==
    IF x.k = "fin" THEN Fin(-x.v)
    ELSE IF x.k = "pinf" THEN NegInf
    ELSE IF x.k = "ninf" THEN PosInf
    ELSE NaN

\* x - y
NumSub(x, y) == NumAdd(x, NumNeg(y))

\* x * y
NumMul(x, y) ==
    IF x.k = "nan" \/ y.k = "nan" THEN NaN
    ELSE IF x.k = "fin" /\ y.k = "fin" THEN Fin(MulDiv(x.v, y.v, SCALE))
    ELSE IF NumSign(x) = 0 \/ NumSign(y) = 0 THEN NaN
    ELSE InfOfSign(NumSign(x) * NumSign(y))

\* x / y
NumDiv(x, y) ==
    IF x.k = "nan" \/ y.k = "nan" THEN NaN
    ELSE IF x.k = "fin" /\ y.k = "fin" THEN
        IF y.v = 0
        THEN IF x.v = 0 THEN NaN ELSE InfOfSign(Sgn(x.v))
        ELSE Fin(MulDiv(x.v, SCALE, y.v))
    ELSE IF x.k = "fin" THEN Zero
    ELSE IF y.k = "fin" THEN InfOfSign(NumSign(x) * (IF y.v < 0 THEN -1 ELSE 1))
    ELSE NaN

\* x < y (false when either is NaN)
NumLt(x, y) ==
    IF x.k = "nan" \/ y.k = "nan" THEN FALSE
    ELSE IF x.k = "fin" /\ y.k = "fin" THEN x.v < y.v
    ELSE IF x.k = y.k THEN FALSE
    ELSE x.k = "ninf" \/ y.k = "pinf"

\* x <= y (false when either is NaN)
NumLe(x, y) == (x.k # "nan" /\ y.k # "nan") /\ ~NumLt(y, x)

\* x > y (false when either is NaN)
NumGt(x, y) == NumLt(y, x)

\* Math.max(x, y)
MathMax(x, y) ==
    IF x.k = "nan" \/ y.k = "nan" THEN NaN
    ELSE IF NumLt(x, y) THEN y ELSE x

\* Math.min(x, y)
MathMin(x, y) ==
    IF x.k = "nan" \/ y.k = "nan" THEN NaN
    ELSE IF NumLt(y, x) THEN y ELSE x

\* Largest r in lo..hi with r * r <= n (lo * lo <= n assumed).
RECURSIVE ISqrtIn(_, _, _)
ISqrtIn(n, lo, hi) ==
    IF lo >= hi THEN lo
    ELSE LET mid == (lo + hi + 1) \div 2
         IN  IF mid * mid <= n THEN ISqrtIn(n, mid, hi) ELSE ISqrtIn(n, lo, mid - 1)

\* Floor of the square root of the natural number n < 2^30.
ISqrt(n) == ISqrtIn(n, 0, 32767)

\* Math.sqrt(x): the square root rounded to the nearest representable value.
MathSqrt(x) ==
    IF x.k = "nan" \/ x.k = "ninf" THEN NaN
    ELSE IF x.k = "pinf" THEN PosInf
    ELSE IF x.v < 0 THEN NaN
    ELSE LET n == x.v * SCALE
             r == ISqrt(n)
         IN  Fin(IF n - r * r > r THEN r + 1 ELSE r)

\* Math.round(x): the nearest integer, ties towards +Infinity.
MathRound(x) ==
    IF x.k # "fin" THEN x
    ELSE Fin(SCALE * ((2 * x.v + SCALE) \div (2 * SCALE)))

\* Units per 1.0 inside the logarithm (finer than SCALE).
LogUnit == 1000 * 1000

\* <<w, e>> with w in [LogUnit, 2 * LogUnit) and w0 * 2^e0 ~ w * 2^e, w0 > 0.
RECURSIVE LogNormalise(_, _)
LogNormalise(w, e) ==
    IF w >= 2 * LogUnit THEN LogNormalise(w \div 2, e + 1)
    ELSE IF w < LogUnit THEN LogNormalise(2 * w, e - 1)
    ELSE <<w, e>>

\* <<w, e>> with v / SCALE ~ (w / LogUnit) * 2^e, halving v while it is too large
\* to be held in LogUnit units.
RECURSIVE LogScaleUp(_, _)
LogScaleUp(v, e) ==
    IF v > 2147483647 \div (LogUnit \div SCALE) THEN LogScaleUp(v \div 2, e + 1)
    ELSE <<v * (LogUnit \div SCALE), e>>

\* ln(v / SCALE) in LogUnit units, for v > 0: ln(m * 2^e) = e * ln 2 + ln m with
\* ln m = 2 * atanh((m - 1) / (m + 1)) summed to the ninth power.
LogUnits(v) ==
    LET up  == LogScaleUp(v, 0)
        n   == LogNormalise(up[1], up[2])
        z   == MulDivNat(n[1] - LogUnit, LogUnit, n[1] + LogUnit)
        z2  == MulDivNat(z, z, LogUnit)
        z3  == MulDivNat(z, z2, LogUnit)
        z5  == MulDivNat(z3, z2, LogUnit)
        z7  == MulDivNat(z5, z2, LogUnit)
        z9  == MulDivNat(z7, z2, LogUnit)
    IN  n[2] * 693147 + 2 * (z + z3 \div 3 + z5 \div 5 + z7 \div 7 + z9 \div 9)

\* Math.log(x): the natural logarithm rounded to the nearest representable value.
MathLog(x) ==
    IF x.k = "nan" \/ x.k = "ninf" THEN NaN
    ELSE IF x.k = "pinf" THEN PosInf
    ELSE IF x.v < 0 THEN NaN
    ELSE IF x.v = 0 THEN NegInf
    ELSE Fin(MulDiv(LogUnits(x.v), SCALE, LogUnit))

\* ------------------------------------------------------------------------
\* src/app/utils/calculateLevelPoints.ts
\* ------------------------------------------------------------------------

BASE_POINTS == 2500

MINIMUM_PBS == 5

\* clamp without its check that the inputs are finite.
clamp_NoFiniteCheck(value, min, max) == MathMax(min, MathMin(max, value))

\* clamp(value, min, max)
clamp(value, min, max) ==
    IF ~NumberIsFinite(value) \/ ~NumberIsFinite(min) \/ ~NumberIsFinite(max)
    THEN NaN
    ELSE MathMax(min, MathMin(max, value))

\* arr.reduce((sum, val) => sum + val, 0), from index i on with the running sum;
\* a sum that has become NaN stays NaN whatever is added to it.
RECURSIVE SumFrom(_, _, _)
SumFrom(arr, i, sum) ==
    IF i > Len(arr) \/ NumberIsNaN(sum) THEN sum
    ELSE SumFrom(arr, i + 1, NumAdd(sum, arr[i]))

\* The sum divided by 10 whatever the number of entries.
average_FixedDivisor(arr) == NumDiv(SumFrom(arr, 1, Zero), Int2Num(10))

\* arr.reduce((sum, val) => sum + val, 0) / arr.length
average(arr) == NumDiv(SumFrom(arr, 1, Zero), Int2Num(Len(arr)))

\* The whole array in place of its first n entries.
SliceFirst_Whole(arr, n) == arr

\* arr.slice(0, n)
SliceFirst(arr, n) == SubSeq(arr, 1, IF Len(arr) < n THEN Len(arr) ELSE n)

\* normaliseNumber letting NaN through.
normaliseNumber_Identity(value) == value

\* Normalises a number to 0 if it is NaN.
normaliseNumber(value) == IF NumberIsNaN(value) THEN Zero ELSE value

\* levelScoreLengthMultiplier without the Math.max(0, ...) floor under START.
levelScoreLengthMultiplier_NoFloor(wrTime) ==
    LET MIN   == Milli(100)
        MAX   == NumSub(One, MIN)
        START == Int2Num(5)
        END   == Int2Num(20)
    IN  IF NumLt(wrTime, END)
        THEN LET clamped == NumDiv(NumSub(wrTime, START), NumSub(END, START))
                 eased   == MathSqrt(clamped)
             IN  NumAdd(MIN, NumMul(eased, MAX))
        ELSE One

\* levelScoreLengthMultiplier(wrTime)
levelScoreLengthMultiplier(wrTime) ==
    LET MIN   == Milli(100)
        MAX   == NumSub(One, MIN)
        START == Int2Num(5)
        END   == Int2Num(20)
    IN  IF NumLt(wrTime, END)
        THEN LET clamped == NumDiv(MathMax(Zero, NumSub(wrTime, START)),
                                   NumSub(END, START))
                 eased   == MathSqrt(clamped)
             IN  NumAdd(MIN, NumMul(eased, MAX))
        ELSE One

\* The short-circuit test taken one entry too early.
TooFewTimes_Strict(topTimes) == Len(topTimes) < MINIMUM_PBS

\* topTimes.length <= MINIMUM_PBS
TooFewTimes(topTimes) == Len(topTimes) <= MINIMUM_PBS

\* The modifier without normaliseNumber.
CompetitivenessModifier_Unnormalised(weightedScore) ==
    clamp(NumAdd(One, weightedScore), Int2Num(0 - 3), Int2Num(3))

\* normaliseNumber(clamp(1 + weightedScore, -3, 3))
CompetitivenessModifier(weightedScore) ==
    normaliseNumber(clamp(NumAdd(One, weightedScore), Int2Num(0 - 3), Int2Num(3)))

\* levelScoreCompetitivenessMultiplier(wrTime, topTimes, personalBests, totalRecords)
levelScoreCompetitivenessMultiplier(wrTime, topTimes, personalBests, totalRecords) ==
    IF TooFewTimes(topTimes)
    THEN [modifier |-> Milli(250), spreadScore |-> Zero, pbRatio |-> Zero,
          grindinessScore |-> Zero]
    ELSE LET top10           == SliceFirst(topTimes, 10)
             top50           == SliceFirst(topTimes, 50)
             avgTop10Time    == average(top10)
             avgTop50Time    == average(top50)
             spreadScore     == NumDiv(NumSub(avgTop50Time, avgTop10Time), avgTop50Time)
             pbRatio         == IF NumGt(personalBests, Zero)
                                THEN NumDiv(personalBests, totalRecords)
                                ELSE Zero
             grindinessScore == NumAdd(One, MathLog(NumMul(Int2Num(2), pbRatio)))
             weightedScore   == NumAdd(NumMul(Milli(650), spreadScore),
                                       NumMul(Milli(200), grindinessScore))
             modifier        == CompetitivenessModifier(weightedScore)
         IN  [modifier |-> modifier, spreadScore |-> spreadScore,
              pbRatio |-> pbRatio, grindinessScore |-> grindinessScore]

\* The rating modifier without the clamp of levelRating / 100.
levelScoreRatingModifier_Unclamped(levelRating) ==
    LET MIN        == Milli(500)
        MAX        == NumSub(Milli(1300), MIN)
        normalised == NumDiv(levelRating, Int2Num(100))
    IN  NumAdd(MIN, NumMul(normalised, MAX))

\* levelScoreRatingModifier(levelRating)
levelScoreRatingModifier(levelRating) ==
    LET MIN        == Milli(500)
        MAX        == NumSub(Milli(1300), MIN)
        normalised == clamp(NumDiv(levelRating, Int2Num(100)), Zero, One)
    IN  NumAdd(MIN, NumMul(normalised, MAX))

\* The popularity modifier with a linear ramp in place of the square root.
levelScorePopularityModifier_Linear(personalBests) ==
    LET MIN    == Milli(750)
        MAX    == NumSub(Milli(1300), MIN)
        PB_CAP == Int2Num(250)
    IN  IF NumLt(personalBests, Int2Num(MINIMUM_PBS))
        THEN NumAdd(MIN, Milli(50))
        ELSE IF NumLt(personalBests, PB_CAP)
        THEN LET normalized == NumDiv(NumSub(personalBests, One), NumSub(PB_CAP, One))
             IN  NumAdd(MIN, NumMul(normalized, MAX))
        ELSE NumAdd(MIN, MAX)

\* levelScorePopularityModifier(personalBests)
levelScorePopularityModifier(personalBests) ==
    LET MIN    == Milli(750)
        MAX    == NumSub(Milli(1300), MIN)
        PB_CAP == Int2Num(250)
    IN  IF NumLt(personalBests, Int2Num(MINIMUM_PBS))
        THEN NumAdd(MIN, Milli(50))
        ELSE IF NumLt(personalBests, PB_CAP)
        THEN LET normalized == NumDiv(NumSub(personalBests, One), NumSub(PB_CAP, One))
                 eased      == MathSqrt(normalized)
             IN  NumAdd(MIN, NumMul(eased, MAX))
        ELSE NumAdd(MIN, MAX)

\* The last entry of topTimes taken for the world record.
WrTimeOf_Last(topTimes) == IF Len(topTimes) = 0 THEN Zero ELSE topTimes[Len(topTimes)]

\* topTimes[0] without the ?? 0: the undefined of an empty list is NaN in
\* every comparison and sum.
WrTimeOf_NoDefault(topTimes) == IF Len(topTimes) = 0 THEN NaN ELSE topTimes[1]

\* topTimes[0] ?? 0
WrTimeOf(topTimes) == IF Len(topTimes) = 0 THEN Zero ELSE topTimes[1]

\* totalRecords === 0
IsZero(x) == x.k = "fin" /\ x.v = 0

\* The rating modifier multiplied into the product.
AppliedRating_Computed(ratingModifier) == ratingModifier

\* The factor that stands for the rating in the product: the literal 1.
AppliedRating(ratingModifier) == One

\* The computed rating modifier reported as the rating contribution.
ReportedRating_Computed(ratingModifier) == ratingModifier

\* The rating contribution of a scored result: rating: 1.
ReportedRating(ratingModifier) == One

\* The product without the popularity modifier.
PointsProduct_NoPopularity(lengthMultiplier, competitivenessMultiplier, ratingFactor, popularityModifier) ==
    NumMul(NumMul(NumMul(Int2Num(BASE_POINTS), lengthMultiplier),
                  competitivenessMultiplier),
           ratingFactor)

\* BASE_POINTS * lengthMultiplier * competitivenessMultiplier * 1 * popularityModifier
PointsProduct(lengthMultiplier, competitivenessMultiplier, ratingFactor, popularityModifier) ==
    NumMul(NumMul(NumMul(NumMul(Int2Num(BASE_POINTS), lengthMultiplier),
                         competitivenessMultiplier),
                  ratingFactor),
           popularityModifier)

\* The result for a level with no records.
ZeroResult ==
    [points |-> Zero,
     contributions |-> [length |-> Zero, competitiveness |-> Zero,
                        rating |-> Zero, popularity |-> Zero]]

\* The result for a level with records.
ScoredResult(input) ==
    LET wrTime == WrTimeOf(input.topTimes)
        lengthMultiplier == normaliseNumber(levelScoreLengthMultiplier(wrTime))
        competitivenessMultiplier ==
            levelScoreCompetitivenessMultiplier(
                wrTime, input.topTimes, input.personalBests,
                input.totalRecords).modifier
        ratingModifier == normaliseNumber(levelScoreRatingModifier(input.levelRating))
        popularityModifier ==
            normaliseNumber(levelScorePopularityModifier(input.personalBests))
        points == MathRound(PointsProduct(lengthMultiplier,
                                          competitivenessMultiplier,
                                          AppliedRating(ratingModifier),
                                          popularityModifier))
    IN  [points |-> points,
         contributions |-> [length |-> lengthMultiplier,
                            competitiveness |-> competitivenessMultiplier,
                            rating |-> ReportedRating(ratingModifier),
                            popularity |-> popularityModifier]]

\* calculateLevelPoints without the totalRecords === 0 return.
calculateLevelPoints_NoZeroGuard(input) == ScoredResult(input)

\* calculateLevelPoints({ topTimes, personalBests, totalRecords, levelRating })
calculateLevelPoints(input) ==
    IF IsZero(input.totalRecords) THEN ZeroResult ELSE ScoredResult(input)

\* ------------------------------------------------------------------------
\* Inputs
\* ------------------------------------------------------------------------

\* Largest magnitude of the integers given to clamp.
MaxClamp == 3

\* World-record times given to the length multiplier run from -1 s to
\* MaxTenths / 10 seconds in steps of a tenth of a second.
MaxTenths == 250

\* Top-times lists have every length up to MaxLen, and the lengths around the
\* slice(0, 50) cut.
MaxLen == 11
MaxPB == 255
MaxClicks == 2
MaxRating == 120

SpecialNums == {NaN, PosInf, NegInf}

ClampNums == {Int2Num(i) : i \in (0 - MaxClamp)..MaxClamp} \cup SpecialNums

ClampArgs == [value : ClampNums, min : ClampNums, max : ClampNums]

WrTimes == {Fin(i * (SCALE \div 10)) : i \in (0 - 10)..MaxTenths} \cup SpecialNums

ListLens == (0..MaxLen) \cup {50, 51}

\* Seconds between neighbours of a rising or falling list.
StepTime == Int2Num(2)

\* n times starting at first: all equal, ascending, or descending to first.
TimesOf(n, first, shape) ==
    [i \in 1..n |->
        IF shape = "flat" THEN first
        ELSE IF shape = "asc" THEN Fin(first.v + (i - 1) * StepTime.v)
        ELSE Fin(first.v + (n - i) * StepTime.v)]

\* Lists whose first entry is not a finite number.
PoisonedLists ==
    {[TimesOf(n, Int2Num(12), "flat") EXCEPT ![1] = x] :
        n \in ListLens \ {0}, x \in {NaN, PosInf}}

\* Lists that fall from 300 s to 0 s after the tenth entry.
CliffLists ==
    {[i \in 1..n |-> IF i <= 10 THEN Int2Num(300) ELSE Zero] : n \in ListLens}

TopTimesLists ==
    {TimesOf(n, f, "flat") : n \in ListLens,
                             f \in {Zero, Int2Num(5), Milli(12345), Int2Num(30)}}
        \cup {TimesOf(n, f, "asc") : n \in ListLens, f \in {Int2Num(1), Int2Num(12)}}
        \cup {TimesOf(n, Int2Num(12), "desc") : n \in ListLens}
        \cup CliffLists
        \cup PoisonedLists

PersonalBestsSet == {Int2Num(n) : n \in {0, 1, 6, 100, 250, 5000}} \cup {NaN}

TotalRecordsSet == {Int2Num(n) : n \in {0, 1, 1000, 10000}} \cup {NaN}

LevelRatings == {Int2Num(n) : n \in {50, 150}} \cup {NaN}

ScoreInputs ==
    [topTimes : TopTimesLists, personalBests : PersonalBestsSet,
     totalRecords : TotalRecordsSet, levelRating : LevelRatings]

\* Personal-best counts given to levelScorePopularityModifier.
PopularityPBs == {Int2Num(n) : n \in 0..MaxPB} \cup SpecialNums

\* Level ratings given to levelScoreRatingModifier, in whole points.
RatingArgs == {Int2Num(n) : n \in (0 - 20)..MaxRating} \cup SpecialNums

\* Lists short enough for the competitiveness short-circuit, all with a 12 s
\* world record.
SparseLists ==
    {TimesOf(n, Int2Num(12), shape) : n \in 1..MINIMUM_PBS, shape \in {"flat", "asc"}}

\* Record totals of a second call with a short list.
SparseRecords == {Int2Num(1), Int2Num(1000), NaN}

\* The statistics of levels with at most one time more than the short-circuit
\* takes.
SparseInputs ==
    [topTimes : {t \in TopTimesLists : Len(t) <= MINIMUM_PBS + 1},
     personalBests : PersonalBestsSet, totalRecords : TotalRecordsSet,
     levelRating : {Int2Num(50)}]

\* World-record times of a second call.
SecondWrTimes == {Int2Num(300), NaN}

\* Top times from the 51st on.
Tails == {<< >>, <<Int2Num(300)>>, <<NaN, Zero>>}

\* The wrTime argument is the caller's topTimes[0] ?? 0, or any other number.
CompetitivenessArgs ==
    {[wrTime |-> w, topTimes |-> t, personalBests |-> p, totalRecords |-> r] :
        t \in TopTimesLists, p \in PersonalBestsSet, r \in TotalRecordsSet,
        w \in {Int2Num(7), NaN}}

\* ------------------------------------------------------------------------
\* The state machine: a call of one exported function and its return
\* ------------------------------------------------------------------------

VARIABLES
    fn,             \* the function called, or the page component rendered
    args,           \* its arguments, or those of the call the page makes
    pc,             \* "called" until it returns, then "returned"
    ret,            \* the value returned
    players,        \* the page's players, each with an id, a name and times
    minRandomTime,  \* the page's lower slider
    maxRandomTime,  \* the page's upper slider
    clicks          \* the number of handlers the page has run

\* The state of the page.
page == <<players, minRandomTime, maxRandomTime, clicks>>

vars == <<fn, args, pc, ret, players, minRandomTime, maxRandomTime, clicks>>

NoRet == [none |-> TRUE]

\* useState([]), useState(30), useState(90)
PageConstructed ==
    /\ players = << >>
    /\ minRandomTime = Int2Num(30)
    /\ maxRandomTime = Int2Num(90)
    /\ clicks = 0

Called(f, argSet) ==
    /\ fn = f
    /\ args \in argSet
    /\ pc = "called"
    /\ ret = NoRet
    /\ PageConstructed

\* clamp returns.
ClampReturn ==
    /\ fn = "clamp" /\ pc = "called"
    /\ ret' = clamp(args.value, args.min, args.max)
    /\ pc' = "returned"
    /\ UNCHANGED <<fn, args, page>>

\* levelScoreLengthMultiplier returns.
LengthReturn ==
    /\ fn = "levelScoreLengthMultiplier" /\ pc = "called"
    /\ ret' = levelScoreLengthMultiplier(args.wrTime)
    /\ pc' = "returned"
    /\ UNCHANGED <<fn, args, page>>

\* levelScoreLengthMultiplier is called again, with the world-record time w.
LengthCallAgain(w) ==
    /\ fn = "levelScoreLengthMultiplier" /\ pc = "returned"
    /\ args' = [wrTime |-> w]
    /\ ret' = levelScoreLengthMultiplier(w)
    /\ UNCHANGED <<fn, pc, page>>

\* levelScoreCompetitivenessMultiplier returns.
CompetitivenessReturn ==
    /\ fn = "levelScoreCompetitivenessMultiplier" /\ pc = "called"
    /\ ret' = levelScoreCompetitivenessMultiplier(
                  args.wrTime, args.topTimes, args.personalBests, args.totalRecords)
    /\ pc' = "returned"
    /\ UNCHANGED <<fn, args, page>>

\* levelScoreCompetitivenessMultiplier is called again with the same lists
\* and counts and the world-record time w.
CompetitivenessCallAgainWithWrTime(w) ==
    /\ fn = "levelScoreCompetitivenessMultiplier" /\ pc = "returned"
    /\ args' = [args EXCEPT !.wrTime = w]
    /\ ret' = levelScoreCompetitivenessMultiplier(
                  args'.wrTime, args'.topTimes, args'.personalBests, args'.totalRecords)
    /\ UNCHANGED <<fn, pc, page>>

\* levelScoreCompetitivenessMultiplier is called again with the same first 50
\* top times followed by the times of tail.
CompetitivenessCallAgainWithTail(tail) ==
    /\ fn = "levelScoreCompetitivenessMultiplier" /\ pc = "returned"
    /\ Len(args.topTimes) >= 50
    /\ args' = [args EXCEPT !.topTimes = SubSeq(args.topTimes, 1, 50) \o tail]
    /\ ret' = levelScoreCompetitivenessMultiplier(
                  args'.wrTime, args'.topTimes, args'.personalBests, args'.totalRecords)
    /\ UNCHANGED <<fn, pc, page>>

\* calculateLevelPoints returns.
PointsReturn ==
    /\ fn = "calculateLevelPoints" /\ pc = "called"
    /\ ret' = calculateLevelPoints(args)
    /\ pc' = "returned"
    /\ UNCHANGED <<fn, args, page>>

\* calculateLevelPoints is called again with the same statistics and the
\* level rating r.
PointsCallAgainWithRating(r) ==
    /\ fn = "calculateLevelPoints" /\ pc = "returned"
    /\ args' = [args EXCEPT !.levelRating = r]
    /\ ret' = calculateLevelPoints(args')
    /\ UNCHANGED <<fn, pc, page>>

\* levelScoreRatingModifier returns.
RatingReturn ==
    /\ fn = "levelScoreRatingModifier" /\ pc = "called"
    /\ ret' = levelScoreRatingModifier(args.levelRating)
    /\ pc' = "returned"
    /\ UNCHANGED <<fn, args, page>>

\* levelScorePopularityModifier returns.
PopularityReturn ==
    /\ fn = "levelScorePopularityModifier" /\ pc = "called"
    /\ ret' = levelScorePopularityModifier(args.personalBests)
    /\ pc' = "returned"
    /\ UNCHANGED <<fn, args, page>>

\* levelScorePopularityModifier is called again, with p personal bests.
PopularityCallAgain(p) ==
    /\ fn = "levelScorePopularityModifier" /\ pc = "returned"
    /\ args' = [personalBests |-> p]
    /\ ret' = levelScorePopularityModifier(p)
    /\ UNCHANGED <<fn, pc, page>>

\* calculateLevelPoints is called again with the same personalBests and
\* levelRating, the list of top times t and the total number of records r.
PointsCallAgainWithTimes(t, r) ==
    /\ fn = "calculateLevelPoints" /\ pc = "returned"
    /\ args' = [args EXCEPT !.topTimes = t, !.totalRecords = r]
    /\ ret' = calculateLevelPoints(args')
    /\ UNCHANGED <<fn, pc, page>>

\* ------------------------------------------------------------------------
\* The page (src/app/page.tsx): its handlers and the call its render makes
\* ------------------------------------------------------------------------

\* The i-th Math.random() of a batch of random times, in [0, 1).
MathRandom(seed, i) == Milli(10 * ((37 * seed * (i - 1)) % 100))

\* generateRandomTime, with the value r of Math.random()
generateRandomTime(r) ==
    NumAdd(minRandomTime, NumMul(r, NumSub(maxRandomTime, minRandomTime)))

\* generateRandomTimes(count)
generateRandomTimes(count, seed) ==
    [i \in 1..count |-> generateRandomTime(MathRandom(seed, i))]

\* Date.now(), taken to be later than the id of every player on the page.
DateNow(ps) ==
    IF ps = << >> THEN 1
    ELSE LET ids == {ps[i].id : i \in 1..Len(ps)}
         IN  1 + CHOOSE latest \in ids : \A id \in ids : id <= latest

\* players.map(player => player.id === playerId ? {...player, times} : player)
\* where changed[i] is the times the handler gives the i-th player.
MapPlayer(ps, playerId, changed) ==
    [i \in 1..Len(ps) |->
        IF ps[i].id = playerId THEN [ps[i] EXCEPT !.times = changed[i]] ELSE ps[i]]

\* Math.min of the running minimum and the times from index i on; a minimum
\* that has become NaN stays NaN.
RECURSIVE MinFrom(_, _, _)
MinFrom(times, i, least) ==
    IF i > Len(times) \/ NumberIsNaN(least) THEN least
    ELSE MinFrom(times, i + 1, MathMin(least, times[i]))

\* Math.min(...times)
MinOf(times) == MinFrom(times, 1, PosInf)

\* (a, b) => a.bestTime - b.bestTime puts a before b
SortsBefore(a, b) == NumLt(NumSub(a, b), Zero)

\* The best times left in the order of the players.
SortByBestTime_Unsorted(bestTimes) == bestTimes

\* .sort((a, b) => a.bestTime - b.bestTime)
SortByBestTime(bestTimes) == SortSeq(bestTimes, SortsBefore)

HasTimes(player) == Len(player.times) > 0

\* getTopTimes
getTopTimes(ps) ==
    LET withTimes == SelectSeq(ps, HasTimes)
        bestTimes == [i \in 1..Len(withTimes) |-> MinOf(withTimes[i].times)]
    IN  SliceFirst(SortByBestTime(bestTimes), 50)

\* getTotalPersonalBests
getTotalPersonalBests(ps) == Len(SelectSeq(ps, HasTimes))

\* getTotalTimesCount: the sum of player.times.length over the players.
getTotalTimesCount(ps) ==
    Cardinality(UNION {{<<i, j>> : j \in 1..Len(ps[i].times)} : i \in 1..Len(ps)})

NoCall == [none |-> TRUE]

\* The arguments of the calculateLevelPoints call that a render with the
\* players ps makes; no call when there are no players.
RenderCall(ps) ==
    IF Len(ps) = 0 THEN NoCall
    ELSE [topTimes      |-> getTopTimes(ps),
          personalBests |-> Int2Num(getTotalPersonalBests(ps)),
          totalRecords  |-> Int2Num(getTotalTimesCount(ps)),
          levelRating   |-> Int2Num(100)]

\* A handler has set the players to ps and the page renders again, calling
\* calculateLevelPoints for the result it displays.
SetPlayers(ps) ==
    /\ players' = ps
    /\ args' = RenderCall(ps)
    /\ clicks' = clicks + 1
    /\ UNCHANGED <<fn, pc, ret>>

Clickable == fn = "PlayerTimeTracker" /\ clicks < MaxClicks

\* addPlayer, with newPlayerName = name
addPlayer(name) ==
    /\ Clickable
    /\ IF name = ""
       THEN UNCHANGED vars
       ELSE /\ SetPlayers(Append(players,
                                 [id |-> DateNow(players), name |-> name, times |-> << >>]))
            /\ UNCHANGED <<minRandomTime, maxRandomTime>>

\* addPlayerWithRandomTimes
addPlayerWithRandomTimes(seed) ==
    /\ Clickable
    /\ SetPlayers(Append(players,
                         [id |-> DateNow(players), name |-> "Player",
                          times |-> generateRandomTimes(10, seed)]))
    /\ UNCHANGED <<minRandomTime, maxRandomTime>>

\* addTenPlayerWithRandomTimes
addTenPlayerWithRandomTimes(seed) ==
    /\ Clickable
    /\ SetPlayers(players \o
                    [i \in 1..10 |->
                        [id |-> 10 * DateNow(players) + (i - 1), name |-> "Player",
                         times |-> generateRandomTimes(10, seed + i)]])
    /\ UNCHANGED <<minRandomTime, maxRandomTime>>

\* addRandomTimesToPlayer(playerId, 10)
addRandomTimesToPlayer(playerId, seed) ==
    /\ Clickable
    /\ LET changed == [i \in 1..Len(players) |->
                          players[i].times \o generateRandomTimes(10, seed)]
       IN  SetPlayers(MapPlayer(players, playerId, changed))
    /\ UNCHANGED <<minRandomTime, maxRandomTime>>

\* addTime(playerId, time)
addTime(playerId, time) ==
    LET changed == [i \in 1..Len(players) |-> Append(players[i].times, time)]
    IN  SetPlayers(MapPlayer(players, playerId, changed))

\* PlayerCard.handleAddTime, with timeValue = Number.parseFloat(newTime)
handleAddTime(playerId, timeValue) ==
    /\ Clickable
    /\ IF NumberIsNaN(timeValue)
       THEN UNCHANGED vars
       ELSE /\ addTime(playerId, timeValue)
            /\ UNCHANGED <<minRandomTime, maxRandomTime>>

\* addTimeBasedOnLast(playerId, amount)
addTimeBasedOnLast(playerId, amount) ==
    /\ Clickable
    /\ LET lastTime(times) == times[Len(times)]
           changed == [i \in 1..Len(players) |->
                          IF Len(players[i].times) > 0
                          THEN Append(players[i].times,
                                      NumAdd(lastTime(players[i].times), Int2Num(amount)))
                          ELSE players[i].times]
       IN  SetPlayers(MapPlayer(players, playerId, changed))
    /\ UNCHANGED <<minRandomTime, maxRandomTime>>

\* removeTime(playerId, timeIndex)
removeTime(playerId, timeIndex) ==
    /\ Clickable
    /\ LET changed == [i \in 1..Len(players) |->
                          SubSeq(players[i].times, 1, timeIndex)
                              \o SubSeq(players[i].times, timeIndex + 2,
                                        Len(players[i].times))]
       IN  SetPlayers(MapPlayer(players, playerId, changed))
    /\ UNCHANGED <<minRandomTime, maxRandomTime>>

\* removePlayer(playerId)
removePlayer(playerId) ==
    /\ Clickable
    /\ LET keep(player) == player.id # playerId
       IN  SetPlayers(SelectSeq(players, keep))
    /\ UNCHANGED <<minRandomTime, maxRandomTime>>

\* setMinRandomTime(value), by the slider from 1 to maxRandomTime - 1
setMinRandomTime(value) ==
    /\ Clickable
    /\ NumLe(Int2Num(1), value) /\ NumLe(value, NumSub(maxRandomTime, One))
    /\ minRandomTime' = value
    /\ clicks' = clicks + 1
    /\ UNCHANGED <<fn, args, pc, ret, players, maxRandomTime>>

\* setMaxRandomTime(value), by the slider from minRandomTime + 1 to 300
setMaxRandomTime(value) ==
    /\ Clickable
    /\ NumLe(NumAdd(minRandomTime, One), value) /\ NumLe(value, Int2Num(300))
    /\ maxRandomTime' = value
    /\ clicks' = clicks + 1
    /\ UNCHANGED <<fn, args, pc, ret, players, minRandomTime>>

\* The time the i-th player of a crowd has recorded: 30 s to 79 s, in no
\* order.
CrowdTime(i) == Int2Num(30 + ((37 * i) % 50))

\* n players with one time each: the page after n addPlayer and n addTime.
Crowd(n) == [i \in 1..n |-> [id |-> i, name |-> "Player", times |-> <<CrowdTime(i)>>]]

CrowdSizes == {0, 2, 50}

\* The cards clicked: those of the first and of the last player.
PlayersClicked == {players[i].id : i \in {1, Len(players)} \cap (1..Len(players))}

\* The times clicked for removal: the first and the last of the player.
TimesClicked(playerId) ==
    UNION {{0, Len(players[i].times) - 1} \cap (0..(Len(players[i].times) - 1)) :
              i \in {j \in 1..Len(players) : players[j].id = playerId}}

\* Number.parseFloat of the texts typed into the time field.
TypedTimes == {Int2Num(3), Zero, NaN}

\* The -5, -1, +1 and +5 buttons.
ModifyAmounts == {0 - 5, 0 - 1, 1, 5}

TypedNames == {"", "Ann"}

Seeds == {1}

SliderValues == {Int2Num(1), Int2Num(300)}

InitPage ==
    /\ fn = "PlayerTimeTracker"
    /\ pc = "rendered"
    /\ players \in {Crowd(n) : n \in CrowdSizes}
    /\ minRandomTime = Int2Num(30)
    /\ maxRandomTime = Int2Num(90)
    /\ clicks = 0
    /\ args = RenderCall(players)
    /\ ret = NoRet

NextPage ==
    \/ \E name \in TypedNames : addPlayer(name)
    \/ \E seed \in Seeds : addPlayerWithRandomTimes(seed)
    \/ \E seed \in Seeds : addTenPlayerWithRandomTimes(seed)
    \/ \E p \in PlayersClicked, seed \in Seeds : addRandomTimesToPlayer(p, seed)
    \/ \E p \in PlayersClicked, t \in TypedTimes : handleAddTime(p, t)
    \/ \E p \in PlayersClicked, a \in ModifyAmounts : addTimeBasedOnLast(p, a)
    \/ \E p \in PlayersClicked : \E i \in TimesClicked(p) : removeTime(p, i)
    \/ \E p \in PlayersClicked : removePlayer(p)
    \/ \E v \in SliderValues : setMinRandomTime(v)
    \/ \E v \in SliderValues : setMaxRandomTime(v)

\* The page from its construction, or from a crowd, through MaxClicks clicks.
SpecPage == InitPage /\ [][NextPage]_vars

InitClamp == Called("clamp", ClampArgs)

SpecClamp == InitClamp /\ [][ClampReturn]_vars

InitLength == Called("levelScoreLengthMultiplier", [wrTime : WrTimes])

NextLength == LengthReturn \/ \E w \in WrTimes : LengthCallAgain(w)

SpecLength == InitLength /\ [][NextLength]_vars

InitCompetitiveness == Called("levelScoreCompetitivenessMultiplier", CompetitivenessArgs)

NextCompetitiveness ==
    \/ CompetitivenessReturn
    \/ \E w \in SecondWrTimes : CompetitivenessCallAgainWithWrTime(w)
    \/ \E tail \in Tails : CompetitivenessCallAgainWithTail(tail)

SpecCompetitiveness == InitCompetitiveness /\ [][NextCompetitiveness]_vars

InitRating == Called("levelScoreRatingModifier", [levelRating : RatingArgs])

SpecRating == InitRating /\ [][RatingReturn]_vars

InitPopularity == Called("levelScorePopularityModifier", [personalBests : PopularityPBs])

NextPopularity == PopularityReturn \/ \E p \in PopularityPBs : PopularityCallAgain(p)

SpecPopularity == InitPopularity /\ [][NextPopularity]_vars

Init == Called("calculateLevelPoints", ScoreInputs)

Next == PointsReturn \/ \E r \in LevelRatings : PointsCallAgainWithRating(r)

Spec == Init /\ [][Next]_vars

InitSparse == Called("calculateLevelPoints", SparseInputs)

NextSparse ==
    \/ PointsReturn
    \/ \E t \in SparseLists, r \in SparseRecords : PointsCallAgainWithTimes(t, r)

\* calculateLevelPoints called for levels with few top times.
SpecSparse == InitSparse /\ [][NextSparse]_vars

\* ------------------------------------------------------------------------
\* Properties
\* ------------------------------------------------------------------------

Returned(f) == fn = f /\ pc = "returned"

\* C1: with totalRecords = 0, calculateLevelPoints returns points 0 and the
\* contributions length, competitiveness, rating and popularity all 0, whatever
\* topTimes, personalBests and levelRating are.
C1_ZeroRecordsGiveZeroResult ==
    (Returned("calculateLevelPoints") /\ IsZero(args.totalRecords))
        => /\ ret.points = Zero
           /\ ret.contributions = [length |-> Zero, competitiveness |-> Zero,
                                   rating |-> Zero, popularity |-> Zero]

\* A level with no records whose other statistics would score.
C1_Witness ==
    /\ Returned("calculateLevelPoints")
    /\ IsZero(args.totalRecords)
    /\ Len(args.topTimes) > MINIMUM_PBS
    /\ args.topTimes[1] = Int2Num(30)
    /\ args.personalBests = Int2Num(100)
    /\ ret.points = Zero

\* C2: with totalRecords # 0, points = round(2500 * L * C * 1 * P) where L, C
\* and P are the reported contributions length, competitiveness and popularity,
\* L being the length multiplier of wrTime = topTimes[0] (0 if absent), C the
\* competitiveness modifier and P the popularity modifier of personalBests.
C2_PointsAreRoundedProduct ==
    (Returned("calculateLevelPoints") /\ ~IsZero(args.totalRecords))
        => LET L == ret.contributions.length
               C == ret.contributions.competitiveness
               P == ret.contributions.popularity
               wrTime == IF Len(args.topTimes) = 0 THEN Zero ELSE args.topTimes[1]
           IN  /\ ret.points =
                    MathRound(NumMul(NumMul(NumMul(NumMul(Int2Num(2500), L), C), One), P))
               /\ L = levelScoreLengthMultiplier(wrTime)
               /\ C = levelScoreCompetitivenessMultiplier(
                          wrTime, args.topTimes, args.personalBests,
                          args.totalRecords).modifier
               /\ P = levelScorePopularityModifier(args.personalBests)

\* A scored level on the computed competitiveness path, all three factors
\* strictly inside their ranges.
C2_Witness ==
    /\ Returned("calculateLevelPoints")
    /\ ~IsZero(args.totalRecords)
    /\ Len(args.topTimes) > MINIMUM_PBS
    /\ NumLt(Milli(100), ret.contributions.length)
    /\ NumLt(ret.contributions.length, One)
    /\ NumLt(Milli(250), ret.contributions.competitiveness)
    /\ NumLt(Milli(800), ret.contributions.popularity)
    /\ NumLt(ret.contributions.popularity, Milli(1300))
    /\ NumLt(Zero, ret.points)

\* C3: for every input the points returned are an integer >= 0.
C3_PointsAreNonNegativeInteger ==
    Returned("calculateLevelPoints")
        => /\ NumberIsFinite(ret.points)
           /\ ret.points.v % SCALE = 0
           /\ ret.points.v >= 0

\* C4 as claimed: for every input the rating contribution is the constant 1.
C4_RatingContributionIsOne ==
    Returned("calculateLevelPoints") => ret.contributions.rating = One

\* C4 as amended: the rating contribution is 1 for every input with
\* totalRecords # 0, whatever levelRating and the computed rating modifier are,
\* and 0 for every input with totalRecords = 0.
C4_RatingContributionIsOneUnlessNoRecords ==
    Returned("calculateLevelPoints")
        => ret.contributions.rating = (IF IsZero(args.totalRecords) THEN Zero ELSE One)

\* A scored level whose computed rating modifier is 0.9, reported as 1.
C4_Witness ==
    /\ Returned("calculateLevelPoints")
    /\ ~IsZero(args.totalRecords)
    /\ args.levelRating = Int2Num(50)
    /\ levelScoreRatingModifier(args.levelRating) = Milli(900)
    /\ ret.contributions.rating = One

\* C5: levelRating has no influence: two calls that agree on topTimes,
\* personalBests and totalRecords and differ only in levelRating (not-a-number
\* and out-of-range ratings included) return the same points and contributions.
C5_RatingHasNoInfluence ==
    [][(/\ fn = "calculateLevelPoints"
        /\ pc = "returned" /\ pc' = "returned"
        /\ args'.topTimes = args.topTimes
        /\ args'.personalBests = args.personalBests
        /\ args'.totalRecords = args.totalRecords)
           => ret' = ret]_vars

\* A scored level returned for a not-a-number rating.
C5_Witness ==
    /\ Returned("calculateLevelPoints")
    /\ NumberIsNaN(args.levelRating)
    /\ ~IsZero(args.totalRecords)
    /\ Len(args.topTimes) > MINIMUM_PBS
    /\ NumLt(Zero, ret.points)

\* C6 as claimed: clamp returns min for v < min, max for v > max, v otherwise,
\* and NaN when an argument is not finite, for all finite triples with no
\* precondition that min <= max.
C6_ClampForAllTriples ==
    Returned("clamp")
        => IF \E x \in {args.value, args.min, args.max} : ~NumberIsFinite(x)
           THEN NumberIsNaN(ret)
           ELSE /\ NumLt(args.value, args.min) => ret = args.min
                /\ NumGt(args.value, args.max) => ret = args.max
                /\ (~NumLt(args.value, args.min) /\ ~NumGt(args.value, args.max))
                       => ret = args.value

\* C6 as amended: NaN when an argument is not finite; for finite triples with
\* min <= max, min for v < min, max for v > max and v otherwise; for finite
\* triples with min > max, min.
C6_ClampForOrderedBounds ==
    Returned("clamp")
        => IF \E x \in {args.value, args.min, args.max} : ~NumberIsFinite(x)
           THEN NumberIsNaN(ret)
           ELSE IF args.min.v <= args.max.v
           THEN /\ args.value.v < args.min.v => ret = args.min
                /\ args.value.v > args.max.v => ret = args.max
                /\ (args.min.v <= args.value.v /\ args.value.v <= args.max.v)
                       => ret = args.value
           ELSE ret = args.min

\* A finite value above the upper of two ordered bounds.
C6_Witness ==
    /\ Returned("clamp")
    /\ \A x \in {args.value, args.min, args.max} : NumberIsFinite(x)
    /\ args.min.v < args.max.v
    /\ args.value.v > args.max.v
    /\ ret = args.max

\* 1 + 0.65 * spreadScore + 0.20 * grindinessScore of a returned result.
ReturnedSum ==
    NumAdd(One, NumAdd(NumMul(Milli(650), ret.spreadScore),
                       NumMul(Milli(200), ret.grindinessScore)))

\* C7: the competitiveness modifier is always a finite number in [-3, 3] and
\* never NaN; when computed from the times (more than 5 of them) it equals
\* 1 + 0.65 * spreadScore + 0.20 * grindinessScore bounded into [-3, 3] when
\* that sum is finite, and 0 when the sum is NaN or infinite.
C7_ModifierIsFiniteAndBounded ==
    Returned("levelScoreCompetitivenessMultiplier")
        => /\ NumberIsFinite(ret.modifier)
           /\ 0 - 3 * SCALE <= ret.modifier.v /\ ret.modifier.v <= 3 * SCALE
           /\ Len(args.topTimes) > 5 =>
                IF NumberIsFinite(ReturnedSum)
                THEN ret.modifier.v =
                        (IF ReturnedSum.v < 0 - 3 * SCALE THEN 0 - 3 * SCALE
                         ELSE IF ReturnedSum.v > 3 * SCALE THEN 3 * SCALE
                         ELSE ReturnedSum.v)
                ELSE ret.modifier = Zero

\* A computed modifier whose sum is not a finite number.
C7_Witness ==
    /\ Returned("levelScoreCompetitivenessMultiplier")
    /\ Len(args.topTimes) > 5
    /\ NumberIsNaN(ret.spreadScore)
    /\ ret.grindinessScore = NegInf
    /\ ret.modifier = Zero

ShortCircuitResult ==
    [modifier |-> Milli(250), spreadScore |-> Zero, pbRatio |-> Zero,
     grindinessScore |-> Zero]

\* C8: levelScoreCompetitivenessMultiplier short-circuits exactly when
\* topTimes.length <= 5: it then returns modifier 0.25 with spreadScore, pbRatio
\* and grindinessScore 0, whatever wrTime, personalBests and totalRecords are;
\* with 6 or more times it never returns the short-circuit result.
C8_ShortCircuitExactlyUpToFive ==
    Returned("levelScoreCompetitivenessMultiplier")
        => (Len(args.topTimes) <= 5 <=> ret = ShortCircuitResult)

\* Exactly five times, with statistics the computed path would use.
C8_Witness ==
    /\ Returned("levelScoreCompetitivenessMultiplier")
    /\ Len(args.topTimes) = 5
    /\ args.personalBests = Int2Num(100)
    /\ args.totalRecords = Int2Num(1000)
    /\ ret = ShortCircuitResult

\* C9: calculateLevelPoints has no failure path: for every input (empty
\* topTimes, zero or NaN times, personalBests = 0, personalBests > totalRecords,
\* non-finite levelRating) the points and the four contributions are numbers
\* that are not NaN.
C9_ResultIsNeverNaN ==
    Returned("calculateLevelPoints")
        => /\ ~NumberIsNaN(ret.points)
           /\ \A c \in {ret.contributions.length, ret.contributions.competitiveness,
                        ret.contributions.rating, ret.contributions.popularity} :
                  ~NumberIsNaN(c)

\* A scored level whose world record, personal bests and rating are all NaN and
\* whose competitiveness is computed from the times.
C9_Witness ==
    /\ Returned("calculateLevelPoints")
    /\ ~IsZero(args.totalRecords)
    /\ Len(args.topTimes) > MINIMUM_PBS
    /\ NumberIsNaN(args.topTimes[1])
    /\ NumberIsNaN(args.personalBests)
    /\ NumberIsNaN(args.levelRating)

\* C10: levelScoreLengthMultiplier is non-decreasing in wrTime over wrTime >= 0,
\* is exactly 0.1 for wrTime <= 5, exactly 1 for wrTime >= 20, and strictly
\* between 0.1 and 1 for 5 < wrTime < 20.
C10_LengthCurve ==
    /\ [](Returned("levelScoreLengthMultiplier")
            => /\ NumLe(args.wrTime, Int2Num(5)) => ret = Milli(100)
               /\ NumLe(Int2Num(20), args.wrTime) => ret = One
               /\ (NumLt(Int2Num(5), args.wrTime) /\ NumLt(args.wrTime, Int2Num(20)))
                      => (NumLt(Milli(100), ret) /\ NumLt(ret, One)))
    /\ [][(/\ fn = "levelScoreLengthMultiplier"
           /\ pc = "returned" /\ pc' = "returned"
           /\ NumLe(Zero, args.wrTime)
           /\ NumLe(args.wrTime, args'.wrTime))
              => NumLe(ret, ret')]_vars

\* The world record a tenth of a second under the 20-second branch boundary.
C10_Witness ==
    /\ Returned("levelScoreLengthMultiplier")
    /\ args.wrTime = Fin(20 * SCALE - SCALE \div 10)
    /\ NumLt(Milli(900), ret)
    /\ NumLt(ret, One)

\* C11: levelScorePopularityModifier is non-decreasing in personalBests over
\* the non-negative integers, across 4 -> 5 and 249 -> 250 included, is 0.8
\* for personalBests < 5 and 1.3 for personalBests >= 250, and stays within
\* [0.75, 1.3].
C11_PopularityCurve ==
    /\ [](Returned("levelScorePopularityModifier")
            => /\ NumLe(Milli(750), ret) /\ NumLe(ret, Milli(1300))
               /\ (NumLe(Zero, args.personalBests)
                      /\ NumLt(args.personalBests, Int2Num(5)))
                      => ret = Milli(800)
               /\ NumLe(Int2Num(250), args.personalBests) => ret = Milli(1300))
    /\ [][(/\ fn = "levelScorePopularityModifier"
           /\ pc = "returned" /\ pc' = "returned"
           /\ NumLe(Zero, args.personalBests)
           /\ NumLe(args.personalBests, args'.personalBests))
              => NumLe(ret, ret')]_vars

\* Five personal bests, the first count on the eased branch: more than the
\* 0.8 of four personal bests and less than the cap.
C11_Witness ==
    /\ Returned("levelScorePopularityModifier")
    /\ args.personalBests = Int2Num(5)
    /\ NumLt(Milli(800), ret)
    /\ NumLt(ret, Milli(1300))

\* C12 as claimed: for every levelRating the modifier is a number in
\* [0.5, 1.3]: 0.5 + 0.8 * (levelRating / 100) on [0, 100], 0.5 below 0 and
\* 1.3 above 100.
C12_RatingModifierForEveryRating ==
    Returned("levelScoreRatingModifier")
        => /\ NumLe(Milli(500), ret) /\ NumLe(ret, Milli(1300))
           /\ NumLt(args.levelRating, Zero) => ret = Milli(500)
           /\ NumGt(args.levelRating, Int2Num(100)) => ret = Milli(1300)
           /\ (NumLe(Zero, args.levelRating) /\ NumLe(args.levelRating, Int2Num(100)))
                  => ret = NumAdd(Milli(500),
                                  NumMul(Milli(800), NumDiv(args.levelRating, Int2Num(100))))

\* C12 as amended: for every finite levelRating the modifier is a number in
\* [0.5, 1.3]: 0.5 + 0.8 * (levelRating / 100) on [0, 100], 0.5 below 0 and
\* 1.3 above 100; for a levelRating that is NaN, Infinity or -Infinity it is
\* NaN.
C12_RatingModifierForFiniteRatings ==
    Returned("levelScoreRatingModifier")
        => IF NumberIsFinite(args.levelRating)
           THEN /\ NumLe(Milli(500), ret) /\ NumLe(ret, Milli(1300))
                /\ NumLt(args.levelRating, Zero) => ret = Milli(500)
                /\ NumGt(args.levelRating, Int2Num(100)) => ret = Milli(1300)
                /\ (NumLe(Zero, args.levelRating)
                       /\ NumLe(args.levelRating, Int2Num(100)))
                       => ret = NumAdd(Milli(500),
                                       NumMul(Milli(800),
                                              NumDiv(args.levelRating, Int2Num(100))))
           ELSE NumberIsNaN(ret)

\* A rating above 100, clamped to the top of the range.
C12_Witness ==
    /\ Returned("levelScoreRatingModifier")
    /\ args.levelRating = Int2Num(110)
    /\ ret = Milli(1300)

\* The inputs of Scenario B: some records, at most 5 top times, fewer than 5
\* personal bests.
ScenarioB(input) ==
    /\ ~IsZero(input.totalRecords)
    /\ Len(input.topTimes) <= 5
    /\ NumLt(input.personalBests, Int2Num(5))

\* C13: for every input with totalRecords # 0, at most 5 top times and
\* personalBests < 5, calculateLevelPoints reports competitiveness 0.25,
\* popularity 0.8 and points = round(2500 * length * 0.25 * 1 * 0.8), length
\* being the length multiplier of topTimes[0]; two such calls that differ only
\* in totalRecords and in the entries of topTimes after the first return the
\* same result.
C13_ScenarioB ==
    /\ []((Returned("calculateLevelPoints") /\ ScenarioB(args))
            => LET first == IF Len(args.topTimes) = 0 THEN Zero ELSE args.topTimes[1]
                   L == levelScoreLengthMultiplier(first)
               IN  /\ ret.contributions.length = L
                   /\ ret.contributions.competitiveness = Milli(250)
                   /\ ret.contributions.popularity = Milli(800)
                   /\ ret.points =
                        MathRound(NumMul(NumMul(NumMul(NumMul(Int2Num(2500), L),
                                                       Milli(250)), One), Milli(800))))
    /\ [][(/\ fn = "calculateLevelPoints"
           /\ pc = "returned" /\ pc' = "returned"
           /\ ScenarioB(args) /\ ScenarioB(args')
           /\ Len(args.topTimes) > 0 /\ Len(args'.topTimes) > 0
           /\ args'.topTimes[1] = args.topTimes[1]
           /\ args'.personalBests = args.personalBests
           /\ args'.levelRating = args.levelRating)
              => ret' = ret]_vars

\* Five ascending times from a 12 s world record with one personal best: the
\* longest list of the short-circuit, its later entries differing from the
\* first.
C13_Witness ==
    /\ Returned("calculateLevelPoints")
    /\ ScenarioB(args)
    /\ Len(args.topTimes) = 5
    /\ args.topTimes[1] = Int2Num(12)
    /\ args.topTimes[5] = Int2Num(20)
    /\ args.personalBests = One
    /\ args.totalRecords = Int2Num(1000)
    /\ NumLt(Zero, ret.points)

\* More than 5 top times, the first 50 of them all the same finite time other
\* than 0.
FlatLevel(topTimes) ==
    /\ Len(topTimes) > 5
    /\ NumberIsFinite(topTimes[1]) /\ ~IsZero(topTimes[1])
    /\ \A i \in 1..Len(topTimes) : i <= 50 => topTimes[i] = topTimes[1]

\* The modifier that pbRatio alone determines: the weighted score with a
\* spread score of exactly 0.
ModifierOfRatio(pbRatio) ==
    LET grindinessScore == NumAdd(One, MathLog(NumMul(Int2Num(2), pbRatio)))
        weightedScore   == NumAdd(NumMul(Milli(650), Zero),
                                  NumMul(Milli(200), grindinessScore))
    IN  normaliseNumber(clamp(NumAdd(One, weightedScore), Int2Num(0 - 3), Int2Num(3)))

\* personalBests > 0 and totalRecords > 0, both finite.
PositiveCounts(a) ==
    /\ NumberIsFinite(a.personalBests) /\ NumGt(a.personalBests, Zero)
    /\ NumberIsFinite(a.totalRecords) /\ NumGt(a.totalRecords, Zero)

\* C14 as claimed: whenever topTimes has more than 5 entries and its first 50
\* are all the same non-zero time, spreadScore is exactly 0 and, for
\* personalBests > 0 and totalRecords > 0, pbRatio = personalBests /
\* totalRecords and the modifier is the finite number that pbRatio alone
\* determines; 50 times of 5.0 with 250 personal bests of 1000 records give
\* pbRatio = 0.25.
C14_FlatTimesGiveZeroSpread ==
    (Returned("levelScoreCompetitivenessMultiplier") /\ FlatLevel(args.topTimes))
        => /\ ret.spreadScore = Zero
           /\ PositiveCounts(args)
                => /\ ret.pbRatio = NumDiv(args.personalBests, args.totalRecords)
                   /\ NumberIsFinite(ret.modifier)
                   /\ ret.modifier = ModifierOfRatio(ret.pbRatio)

\* The rounding error the two averages can leave in the spread score: the 60
\* roundings of the two sums and quotients, each of at most half a unit in the
\* last place of the significand.
SpreadSlack == (60 * 10 * SCALE) \div (2 * PRECISION)

\* Whether x and y are finite and differ by at most SpreadSlack units.
WithinSlack(x, y) ==
    /\ NumberIsFinite(x) /\ NumberIsFinite(y)
    /\ Abs(x.v - y.v) <= SpreadSlack

\* C14 as amended: whenever topTimes has more than 5 entries and its first 50
\* are all the same finite non-zero time, spreadScore is 0 up to the rounding
\* error of the two averages, and exactly 0 when there are at most 10 entries
\* or the time is 5.0; for personalBests > 0 and totalRecords > 0, pbRatio =
\* personalBests / totalRecords and the modifier is finite and is, up to the
\* same rounding error, the number that pbRatio alone determines; 50 times of
\* 5.0 with 250 personal bests of 1000 records give pbRatio = 0.25.
C14_FlatTimesGiveZeroSpreadUpToRounding ==
    (Returned("levelScoreCompetitivenessMultiplier") /\ FlatLevel(args.topTimes))
        => /\ WithinSlack(ret.spreadScore, Zero)
           /\ (Len(args.topTimes) <= 10 \/ args.topTimes[1] = Int2Num(5))
                => ret.spreadScore = Zero
           /\ PositiveCounts(args)
                => /\ ret.pbRatio = NumDiv(args.personalBests, args.totalRecords)
                   /\ NumberIsFinite(ret.modifier)
                   /\ WithinSlack(ret.modifier, ModifierOfRatio(ret.pbRatio))
           /\ (/\ Len(args.topTimes) = 50
               /\ args.topTimes[1] = Int2Num(5)
               /\ args.personalBests = Int2Num(250)
               /\ args.totalRecords = Int2Num(1000))
                => ret.pbRatio = Milli(250)

\* Scenario C itself: 50 times of 5.0, 250 personal bests, 1000 records.
C14_Witness ==
    /\ Returned("levelScoreCompetitivenessMultiplier")
    /\ FlatLevel(args.topTimes)
    /\ Len(args.topTimes) = 50
    /\ args.topTimes[1] = Int2Num(5)
    /\ args.personalBests = Int2Num(250)
    /\ args.totalRecords = Int2Num(1000)
    /\ ret.pbRatio = Milli(250)
    /\ ret.spreadScore = Zero

\* C15: with an empty topTimes and totalRecords # 0 the world record counts
\* as 0: the length contribution is the floor 0.1, the competitiveness is the
\* short-circuit 0.25, and points = round(2500 * 0.1 * 0.25 * popularity),
\* which is not 0.
C15_EmptyTopTimes ==
    (Returned("calculateLevelPoints") /\ ~IsZero(args.totalRecords)
        /\ Len(args.topTimes) = 0)
        => /\ ret.contributions.length = Milli(100)
           /\ ret.contributions.length = levelScoreLengthMultiplier(Zero)
           /\ ret.contributions.competitiveness = Milli(250)
           /\ ret.points =
                MathRound(NumMul(NumMul(NumMul(Int2Num(2500), Milli(100)), Milli(250)),
                                 ret.contributions.popularity))
           /\ ret.points # Zero

\* No top times, yet 100 personal bests among 1000 records: 69 points.
C15_Witness ==
    /\ Returned("calculateLevelPoints")
    /\ Len(args.topTimes) = 0
    /\ args.totalRecords = Int2Num(1000)
    /\ args.personalBests = Int2Num(100)
    /\ ret.contributions.length = Milli(100)
    /\ NumLt(Int2Num(50), ret.points)

\* C16: with totalRecords # 0, a NaN topTimes[0] gives a length contribution
\* of 0 and a NaN personalBests gives a popularity contribution of 0, so that
\* points is 0 in both cases.
C16_InvalidInputContributesZero ==
    (Returned("calculateLevelPoints") /\ ~IsZero(args.totalRecords))
        => /\ (Len(args.topTimes) > 0 /\ NumberIsNaN(args.topTimes[1]))
                => (ret.contributions.length = Zero /\ ret.points = Zero)
           /\ NumberIsNaN(args.personalBests)
                => (ret.contributions.popularity = Zero /\ ret.points = Zero)

\* C19: the result of levelScoreCompetitivenessMultiplier depends only on
\* whether topTimes has more than 5 entries, on its first 50 entries, and on
\* personalBests and totalRecords: two calls that differ only in wrTime, or
\* only in the topTimes entries at index 50 and beyond (both lists longer than
\* 5), return the same modifier, spreadScore, pbRatio and grindinessScore.
C19_OnlyFirstFiftyTimesAndCountsMatter ==
    [][(/\ fn = "levelScoreCompetitivenessMultiplier"
        /\ pc = "returned" /\ pc' = "returned"
        /\ args'.personalBests = args.personalBests
        /\ args'.totalRecords = args.totalRecords
        /\ \/ args'.topTimes = args.topTimes
           \/ /\ args'.wrTime = args.wrTime
              /\ Len(args.topTimes) >= 50 /\ Len(args'.topTimes) >= 50
              /\ \A i \in 1..50 : args'.topTimes[i] = args.topTimes[i])
          => /\ ret'.modifier = ret.modifier
             /\ ret'.spreadScore = ret.spreadScore
             /\ ret'.pbRatio = ret.pbRatio
             /\ ret'.grindinessScore = ret.grindinessScore]_vars

\* A second call whose list ends in a 300 s time after 50 times of 30 s, with
\* a world-record argument of 300 s that is none of its times.
C19_Witness ==
    /\ Returned("levelScoreCompetitivenessMultiplier")
    /\ Len(args.topTimes) = 51
    /\ args.topTimes[50] = Int2Num(30)
    /\ args.topTimes[51] = Int2Num(300)
    /\ args.wrTime = Int2Num(300)
    /\ args.personalBests = Int2Num(100)
    /\ args.totalRecords = Int2Num(1000)
    /\ ret.spreadScore = Zero

\* The render of the page has players and so calls calculateLevelPoints.
PageCalls == fn = "PlayerTimeTracker" /\ args # NoCall

\* The indices of the players with at least one time.
Timed(ps) == {i \in 1..Len(ps) : Len(ps[i].times) > 0}

\* The least of the times of a player who has some.
LeastTime(player) ==
    CHOOSE least \in {player.times[j] : j \in 1..Len(player.times)} :
        \A j \in 1..Len(player.times) : NumLe(least, player.times[j])

\* The least times of the players who have some, in the order of the players.
LeastTimes(ps) ==
    LET timed == SelectSeq(ps, HasTimes)
    IN  [i \in 1..Len(timed) |-> LeastTime(timed[i])]

\* How many entries of the list are t.
Entries(list, t) == Cardinality({i \in 1..Len(list) : list[i] = t})

\* The number of times of the players from the i-th on, added to sum.
RECURSIVE TimesFrom(_, _, _)
TimesFrom(ps, i, sum) ==
    IF i > Len(ps) THEN sum ELSE TimesFrom(ps, i + 1, sum + Len(ps[i].times))

\* The list holds least times of the players, each player at most once, and
\* a least time the list leaves out is no less than any entry of the list.
LeastTimesOf(list, ps) ==
    LET least == LeastTimes(ps)
    IN  /\ \A i \in 1..Len(list) : Entries(list, list[i]) <= Entries(least, list[i])
        /\ \A p \in 1..Len(least) :
               Entries(list, least[p]) < Entries(least, least[p])
                   => \A i \in 1..Len(list) : NumLe(list[i], least[p])

\* C17: whatever the handlers of the page have done to the players, the input
\* of the calculateLevelPoints call the page makes has topTimes sorted
\* ascending, made of the least times of the players, of length
\* min(personalBests, 50); personalBests is the number of players with a
\* time; totalRecords is the number of times of all players; so personalBests
\* is at most totalRecords, and totalRecords is 0 exactly when topTimes is
\* empty.
C17_PageDerivesTheInput ==
    PageCalls =>
        /\ \A i \in 1..(Len(args.topTimes) - 1) :
               NumLe(args.topTimes[i], args.topTimes[i + 1])
        /\ LeastTimesOf(args.topTimes, players)
        /\ Len(args.topTimes) =
               (IF Cardinality(Timed(players)) < 50
                THEN Cardinality(Timed(players)) ELSE 50)
        /\ args.personalBests = Int2Num(Cardinality(Timed(players)))
        /\ args.totalRecords = Int2Num(TimesFrom(players, 1, 0))
        /\ NumLe(args.personalBests, args.totalRecords)
        /\ (args.totalRecords = Zero) <=> (args.topTimes = << >>)

\* A click has left more than 50 players with times, and the page passes the
\* 50 least of their least times, leaving the others out.
C17_Witness ==
    /\ PageCalls /\ clicks > 0
    /\ Cardinality(Timed(players)) > 50
    /\ Len(args.topTimes) = 50
    /\ args.personalBests = Int2Num(Cardinality(Timed(players)))
    /\ \E p \in Timed(players) :
           Entries(args.topTimes, LeastTime(players[p])) = 0

\* C18: whatever the handlers of the page have done to the players (a time
\* typed in, the -5, -1, +1 and +5 buttons, random times, removals), every
\* entry of the topTimes the page passes to calculateLevelPoints is a positive
\* number of seconds.
C18_TopTimesArePositive ==
    PageCalls => \A i \in 1..Len(args.topTimes) : NumLt(Zero, args.topTimes[i])

====
